---------------------------- MODULE Spec2Model ----------------------------
(***************************************************************************)
(* PortfolioPanic: the game session (GameProvider in                       *)
(* src/src/components/AssetList.tsx, second half) and the chart history    *)
(* store (src/src/utils/chartUtils.ts).                                    *)
(*                                                                         *)
(* Units: every time is in milliseconds, also state.timeRemaining, which   *)
(* the code keeps in seconds (the TICK payload is (timestamp -             *)
(* lastTickTime) / 1000 and the schedule check multiplies by 1000 again).  *)
(* News magnitudes are in hundredths (0.7 is 70).                          *)
(***************************************************************************)
EXTENDS Integers, Sequences, FiniteSets, TLC

VARIABLES
    clock,               \* Date.now() and the requestAnimationFrame timestamp
    assetPriceHistory,   \* chartUtils.assetPriceHistory: asset id -> AssetChartData
    portfolioHistory,    \* chartUtils.portfolioHistory
    histCalls,           \* number of update calls made so far, per series
    state,               \* the reducer's GameState (useReducer)
    snap,                \* the GameState the game-loop effect closed over
    hooks,               \* useState cells: lastTickTime, lastPriceUpdate,
                         \* lastNetWorthUpdate, eventSchedule
    timers,              \* pending setTimeout callbacks
    newsLog,             \* every ADD_NEWS payload dispatched so far, in order
    idCounter,           \* source of fresh news ids and chain ids (uuid)
    budget,              \* how many frames, trades and starts have run
    achievementsUnlocked,  \* useState cell: the set of unlocked achievement ids
    achievementToasts,   \* showAchievementToast calls so far, per achievement id
    missionInterval,     \* the state the setInterval callback closed over
    highScores,          \* the saveHighScore runs so far and how far each got
    lastRun              \* what the handler that ran last did

vars == <<clock, assetPriceHistory, portfolioHistory, histCalls, state, snap,
          hooks, timers, newsLog, idCounter, budget, achievementsUnlocked,
          achievementToasts, missionInterval, highScores, lastRun>>

histVars == <<assetPriceHistory, portfolioHistory, histCalls>>

\* What the effects beside the game loop keep.
sideVars == <<achievementsUnlocked, achievementToasts, missionInterval, highScores>>

gameVars == <<state, snap, hooks, timers, newsLog, idCounter, budget, sideVars>>

--------------------------------------------------------------------------
(* Bounds of the model and constants of the program *)

AssetHistoryCap == 50

PortfolioHistoryCap == 200

\* Calls made on one series after Init, in the history specification; the
\* i-th call on a series is made at time i.
MaxHistCalls == 2

AssetIds == {"a1", "a2"}

PortfolioKey == "portfolio"

HistPrices == {10, 30}

OldestPrice == 5

Min2(a, b) == IF a <= b THEN a ELSE b

Max2(a, b) == IF a >= b THEN a ELSE b

RECURSIVE SeqMin(_)
SeqMin(s) == IF Len(s) = 1 THEN s[1] ELSE Min2(s[1], SeqMin(Tail(s)))

RECURSIVE SeqMax(_)
SeqMax(s) == IF Len(s) = 1 THEN s[1] ELSE Max2(s[1], SeqMax(Tail(s)))

--------------------------------------------------------------------------
(* chartUtils.ts *)

initAssetPriceHistory(hist, assetId, initialPrice, dateNow) ==
    [k \in DOMAIN hist \cup {assetId} |->
        IF k = assetId
        THEN [timestamps |-> <<dateNow>>,
              prices     |-> <<initialPrice>>,
              min        |-> initialPrice,
              max        |-> initialPrice,
              data       |-> <<[value |-> initialPrice, timestamp |-> dateNow]>>]
        ELSE hist[k]]

\* Mutant: the new point is put in front of the series.
PushAssetPointInFront(h, price, timestamp) ==
    [timestamps |-> <<timestamp>> \o h.timestamps,
     prices     |-> <<price>> \o h.prices,
     data       |-> <<[value |-> price, timestamp |-> timestamp]>> \o h.data,
     min        |-> Min2(h.min, price),
     max        |-> Max2(h.max, price)]

\* The asset series after the push, before the length check.
PushAssetPoint(h, price, timestamp) ==
    [timestamps |-> Append(h.timestamps, timestamp),
     prices     |-> Append(h.prices, price),
     data       |-> Append(h.data, [value |-> price, timestamp |-> timestamp]),
     min        |-> Min2(h.min, price),
     max        |-> Max2(h.max, price)]

\* Mutant: the shift drops the newest point instead of the oldest.
TrimAssetHistoryDropNewest(h) ==
    IF Len(h.prices) > AssetHistoryCap
    THEN LET n == Len(h.prices) - 1
             prices == SubSeq(h.prices, 1, n)
         IN [timestamps |-> SubSeq(h.timestamps, 1, n),
             prices     |-> prices,
             data       |-> SubSeq(h.data, 1, n),
             min        |-> IF Len(prices) > 0 THEN SeqMin(prices) ELSE h.min,
             max        |-> IF Len(prices) > 0 THEN SeqMax(prices) ELSE h.max]
    ELSE h

\* Mutant: the shift keeps the tracked min and max as they were.
TrimAssetHistoryKeepsExtremes(h) ==
    IF Len(h.prices) > AssetHistoryCap
    THEN [timestamps |-> Tail(h.timestamps),
          prices     |-> Tail(h.prices),
          data       |-> Tail(h.data),
          min        |-> h.min,
          max        |-> h.max]
    ELSE h

\* "Limit history length - keep most recent 50 points"
TrimAssetHistory(h) ==
    IF Len(h.prices) > AssetHistoryCap
    THEN LET prices == Tail(h.prices)
         IN [timestamps |-> Tail(h.timestamps),
             prices     |-> prices,
             data       |-> Tail(h.data),
             min        |-> IF Len(prices) > 0 THEN SeqMin(prices) ELSE h.min,
             max        |-> IF Len(prices) > 0 THEN SeqMax(prices) ELSE h.max]
    ELSE h

\* dateNow is the Date.now() that initAssetPriceHistory reads itself.
updateAssetPriceHistory(hist, assetId, price, timestamp, dateNow) ==
    IF assetId \notin DOMAIN hist
    THEN initAssetPriceHistory(hist, assetId, price, dateNow)
    ELSE [hist EXCEPT ![assetId] =
             TrimAssetHistory(PushAssetPoint(hist[assetId], price, timestamp))]

\* The module-level portfolioHistory object.  min and max carry the 10%
\* padding; they are kept in tenths (min = 9 * value means value * 0.9).
EmptyPortfolioHistory ==
    [timestamps |-> <<>>, values |-> <<>>, events |-> <<>>, annotations |-> <<>>,
     min |-> 0, max |-> 0, startValue |-> 0, data |-> <<>>]

\* event = null, the default of the third parameter.
NoEvent == [type |-> "null", description |-> "null"]

updatePortfolioHistory(ph, value, timestamp, event) ==
    LET first  == IF Len(ph.values) = 0
                  THEN [ph EXCEPT !.startValue = value,
                                  !.min = 9 * value,
                                  !.max = 11 * value]
                  ELSE ph
        pushed == [first EXCEPT
                      !.timestamps = Append(first.timestamps, timestamp),
                      !.values     = Append(first.values, value),
                      !.data       = Append(first.data,
                                        [value |-> value, timestamp |-> timestamp]),
                      !.min        = Min2(first.min, 9 * value),
                      !.max        = Max2(first.max, 11 * value)]
        noted  == IF event # NoEvent
                  THEN [pushed EXCEPT
                           !.events = Append(pushed.events,
                                         [timestamp   |-> timestamp,
                                          value       |-> value,
                                          type        |-> event.type,
                                          description |-> event.description])]
                  ELSE pushed
    IN  IF Len(noted.values) > PortfolioHistoryCap
        THEN [noted EXCEPT !.timestamps = Tail(noted.timestamps),
                           !.values     = Tail(noted.values),
                           !.data       = Tail(noted.data)]
        ELSE noted

--------------------------------------------------------------------------
(* GameProvider: calculateNetWorth *)

\* state.assets.find(a => a.id === assetId): the index, 0 when there is none.
FindAsset(assets, assetId) ==
    IF \E i \in 1..Len(assets) : assets[i].id = assetId
    THEN CHOOSE i \in 1..Len(assets) :
            /\ assets[i].id = assetId
            /\ \A j \in 1..(i - 1) : assets[j].id # assetId
    ELSE 0

\* Mutant: the short profit is taken with the wrong sign.
NetWorthEntryShortSign(st, assetId, netWorth) ==
    LET holding == st.holdings[assetId]
        idx     == FindAsset(st.assets, assetId)
    IN  IF idx # 0
        THEN LET asset    == st.assets[idx]
                 withLong == netWorth + holding.quantity * asset.price
             IN  IF holding.shortQuantity > 0
                 THEN withLong + holding.shortQuantity
                                   * (asset.price - holding.averageShortPrice)
                 ELSE withLong
        ELSE netWorth

\* One turn of the forEach over Object.entries(state.holdings).
NetWorthEntry(st, assetId, netWorth) ==
    LET holding == st.holdings[assetId]
        idx     == FindAsset(st.assets, assetId)
    IN  IF idx # 0
        THEN LET asset    == st.assets[idx]
                 withLong == netWorth + holding.quantity * asset.price
             IN  IF holding.shortQuantity > 0
                 THEN withLong + holding.shortQuantity
                                   * (holding.averageShortPrice - asset.price)
                 ELSE withLong
        ELSE netWorth

RECURSIVE NetWorthFold(_, _, _)
NetWorthFold(st, keys, netWorth) ==
    IF keys = {} THEN netWorth
    ELSE LET assetId == CHOOSE k \in keys : TRUE
         IN  NetWorthFold(st, keys \ {assetId}, NetWorthEntry(st, assetId, netWorth))

calculateNetWorth(st) == NetWorthFold(st, DOMAIN st.holdings, st.cash)

--------------------------------------------------------------------------
(* Constants of the game *)

\* scheduleRoundEvents(eventCount, 60, density) and 60 - state.timeRemaining
RoundDuration == 60000

\* nextRound: state.round >= 10
MaxRound == 10

PRICE_UPDATE_INTERVAL == 1000

\* "News expires after 15 seconds"
NewsLifetime == 15000

\* "100ms window to catch the timing"
MatchWindow == 100

\* newsItem.magnitude > 0.7
BreakingThreshold == 70

InitialCash == 10000

InitialPrice == 20

PriceFloor == 1

\* Bounds of the game specification
StartClock == 100000

MaxFrames == 2

\* Frames in the round specification.
MaxRoundFrames == 2

MaxTrades == 2

MaxStarts == 1

\* Pause toggles: one pause and one resume.
MaxPauses == 2

\* unlockAchievement calls made by one handler.
MaxUnlockCalls == 2

\* Trades in the achievement specification.
MaxAchievementTrades == 1

\* requestAnimationFrame gaps: a frame of a visible tab and a throttled one.
VisibleDeltas == {16, 1000}

\* The gaps of the ledger specification: every frame is due a price update.
LedgerDeltas == {1000}

\* The first frame after the tab was hidden for a whole round.
RoundDeltas == {60000}

\* The gap of the resume specification: a slow frame.
ScheduleDeltas == {200}

\* The gaps of the schedule specification: a slow frame, and one that brings
\* the countdown to the edge of a timing's window.
WindowDeltas == {50, 200}

\* Frames in the schedule specification.
MaxScheduleFrames == 3

\* What UPDATE_PRICES may add to each price in one update.
PriceMoves == { [a \in AssetIds |-> IF a = "a1" THEN 30 ELSE -10] }

\* healthChange = (Math.random() * 6) - 3, when Math.random() < 0.02
HealthChanges == {-3}

TradeUnits == {500}

TradeActions == {"buy", "sell", "short", "cover"}

\* Offsets scheduleRoundEvents may return (ms into the round): 150 and 250
\* are 100 ms apart and both within 100 ms of 200.
ScheduleOffsets == {50, 150, 250}

\* followUpDelay = Math.floor(Math.random() * 10000) + 5000
FollowUpDelays == {5000}

\* What generateMarketNews may draw: magnitude (hundredths), direction,
\* impacted asset ids.
NewsTemplates ==
    { [magnitude |-> 40, direction |-> 1,  impactedAssets |-> {"a1"}],
      [magnitude |-> 80, direction |-> -1, impactedAssets |-> {"a1", "a2"}] }

\* generateMarketNews(..., true): the high-impact draws.
HighImpactTemplates == { t \in NewsTemplates : t.magnitude > BreakingThreshold }

NoTick == -1

NoChain == 0

--------------------------------------------------------------------------
(* gameReducer, initialGameState, newsGenerator, difficultyManager: not in *)
(* the repository's sources; modelled from the specification.              *)

initialGameState ==
    [cash            |-> InitialCash,
     holdings        |-> << >>,
     assets          |-> <<[id |-> "a1", price |-> InitialPrice],
                           [id |-> "a2", price |-> InitialPrice]>>,
     round           |-> 1,
     timeRemaining   |-> RoundDuration,
     isPaused        |-> FALSE,
     isGameOver      |-> FALSE,
     marketHealth    |-> 100,
     eventDensity    |-> 1,
     lastNewsUpdate  |-> 0,
     activeNews      |-> <<>>,
     netWorthHistory |-> <<>>]

EmptyHolding == [quantity |-> 0, shortQuantity |-> 0, averageShortPrice |-> 0]

HoldingOf(st, assetId) ==
    IF assetId \in DOMAIN st.holdings THEN st.holdings[assetId] ELSE EmptyHolding

SetHolding(st, assetId, h) ==
    [k \in DOMAIN st.holdings \cup {assetId} |->
        IF k = assetId THEN h ELSE st.holdings[k]]

\* TICK: the countdown; at 0 the round advances, or the game ends at round 10.
ReduceTick(st, deltaTime) ==
    IF st.isPaused \/ st.isGameOver THEN st
    ELSE LET t == Max2(0, st.timeRemaining - deltaTime)
         IN  IF t > 0 THEN [st EXCEPT !.timeRemaining = t]
             ELSE IF st.round < MaxRound
                  THEN [st EXCEPT !.round = @ + 1, !.timeRemaining = RoundDuration]
                  ELSE [st EXCEPT !.timeRemaining = 0, !.isGameOver = TRUE]

\* UPDATE_PRICES: move[id] is the random perturbation of asset id.
ReduceUpdatePrices(st, move) ==
    [st EXCEPT !.assets =
        [i \in 1..Len(st.assets) |->
            [st.assets[i] EXCEPT
                !.price = Max2(PriceFloor, @ + move[st.assets[i].id])]]]

\* ADD_NEWS: the item joins the active list and moves the impacted prices.
ReduceAddNews(st, item) ==
    [st EXCEPT
        !.activeNews = Append(@, item),
        !.assets =
            [i \in 1..Len(st.assets) |->
                IF st.assets[i].id \in item.impactedAssets
                THEN [st.assets[i] EXCEPT
                        !.price = Max2(PriceFloor,
                                    @ + item.direction * ((@ * item.magnitude) \div 100))]
                ELSE st.assets[i]]]

RECURSIVE FilterOutId(_, _)
FilterOutId(items, id) ==
    IF items = <<>> THEN <<>>
    ELSE IF Head(items).id = id THEN FilterOutId(Tail(items), id)
         ELSE <<Head(items)>> \o FilterOutId(Tail(items), id)

\* EXPIRE_NEWS
ReduceExpireNews(st, id) == [st EXCEPT !.activeNews = FilterOutId(@, id)]

\* UPDATE_MARKET_HEALTH
ReduceMarketHealth(st, newHealth) == [st EXCEPT !.marketHealth = newHealth]

\* UPDATE_NET_WORTH: the reducer records the net worth of its own state.
ReduceNetWorth(st, timestamp) ==
    [st EXCEPT !.netWorthHistory =
        Append(@, [timestamp |-> timestamp, value |-> calculateNetWorth(st)])]

\* EXECUTE_TRADE.  buy and short take the amount in units, sell and cover in
\* currency (units = amount / price); the margin a short requires is the
\* full value of the units shorted.
ReduceExecuteTrade(st, assetId, action, amount, price) ==
    LET h == HoldingOf(st, assetId)
    IN  CASE action = "buy" ->
               IF st.cash >= amount * price
               THEN [st EXCEPT !.cash = @ - amount * price,
                               !.holdings = SetHolding(st, assetId,
                                   [h EXCEPT !.quantity = @ + amount])]
               ELSE st
          [] action = "sell" ->
               LET units == amount \div price
               IN  IF h.quantity >= units
                   THEN [st EXCEPT !.cash = @ + amount,
                                   !.holdings = SetHolding(st, assetId,
                                       [h EXCEPT !.quantity = @ - units])]
                   ELSE st
          [] action = "short" ->
               IF st.cash >= amount * price
               THEN [st EXCEPT !.holdings = SetHolding(st, assetId,
                        [h EXCEPT
                            !.shortQuantity = @ + amount,
                            !.averageShortPrice =
                                (h.shortQuantity * h.averageShortPrice + amount * price)
                                    \div (h.shortQuantity + amount)])]
               ELSE st
          [] action = "cover" ->
               LET units == amount \div price
               IN  IF h.shortQuantity >= units
                   THEN [st EXCEPT
                            !.cash = @ + units * (h.averageShortPrice - price),
                            !.holdings = SetHolding(st, assetId,
                                [h EXCEPT !.shortQuantity = @ - units])]
                   ELSE st

\* START_GAME: a fresh running game.
ReduceStartGame(st) == initialGameState

\* END_GAME
ReduceEndGame(st) == [st EXCEPT !.isGameOver = TRUE]

\* NEXT_ROUND
ReduceNextRound(st) ==
    [st EXCEPT !.round = @ + 1, !.timeRemaining = RoundDuration]

\* TOGGLE_PAUSE (the pauseToggle command)
ReduceTogglePause(st) ==
    IF st.isGameOver THEN st ELSE [st EXCEPT !.isPaused = ~@]

\* getRoundEventDensity: grows with the round.
getRoundEventDensity(round) == round

\* calculateRoundEventCount
calculateRoundEventCount(density) ==
    Min2(1 + density \div 4, Cardinality(ScheduleOffsets))

\* scheduleRoundEvents: the sorted offset lists it may return for a count,
\* strictly inside the round and no two within the match window.
scheduleRoundEvents(eventCount) ==
    { s \in UNION { [1..n -> ScheduleOffsets] : n \in {eventCount} } :
        /\ \A i \in 1..Len(s) : s[i] > 0 /\ s[i] < RoundDuration
        /\ \A i \in 1..(Len(s) - 1) : s[i + 1] - s[i] >= MatchWindow }

\* generateMarketNews(assets, round, highImpact): the item for a drawn template.
generateMarketNews(template, id, dateNow) ==
    [id             |-> id,
     magnitude      |-> template.magnitude,
     direction      |-> template.direction,
     impactedAssets |-> template.impactedAssets,
     timestamp      |-> dateNow,
     chainId        |-> NoChain,
     chainSequence  |-> 0]

--------------------------------------------------------------------------
(* GameProvider: what a handler run leaves behind for the properties *)

RunOf(op, st) ==
    [op            |-> op,
     overAtEntry   |-> st.isGameOver,
     pausedAtEntry |-> st.isPaused,
     roundBefore   |-> st.round,
     timeBefore    |-> st.timeRemaining,
     newsBefore    |-> st.activeNews,
     ledger        |-> [cash |-> st.cash, holdings |-> st.holdings],
     dispatched    |-> <<>>,
     ret           |-> "undefined",
     emitted       |-> <<>>,
     toasts        |-> <<>>,
     roundEnded    |-> FALSE,
     priceDue      |-> FALSE,
     nwDue         |-> FALSE,
     netWorth      |-> 0,
     calls         |-> <<>>,
     length        |-> 0,
     series        |-> <<>>,
     scheduleBefore |-> <<>>,
     fired         |-> {},
     scheduleLeft  |-> <<>>]

Abs(x) == IF x < 0 THEN -x ELSE x

\* prev.filter((_, i) => i !== index), with index counted from 1
RemoveIndex(seq, index) ==
    IF index > Len(seq) THEN seq
    ELSE SubSeq(seq, 1, index - 1) \o SubSeq(seq, index + 1, Len(seq))

AllTimers == timers.followUps \cup timers.expiries

--------------------------------------------------------------------------
(* GameProvider: the "Schedule news events for the round" effect *)

\* The effect runs after a render in which one of its dependencies
\* [state.round, state.isPaused, state.isGameOver] changed.
ScheduleEffectRuns(old, new) ==
    /\ \/ old.round # new.round
       \/ old.isPaused # new.isPaused
       \/ old.isGameOver # new.isGameOver
    /\ ~new.isPaused /\ ~new.isGameOver /\ new.round > 0

\* The timings the effect may draw; one dummy value when it does not run.
ScheduleDraws(old, new) ==
    IF ScheduleEffectRuns(old, new)
    THEN scheduleRoundEvents(calculateRoundEventCount(getRoundEventDensity(new.round)))
    ELSE {<<>>}

\* The state and the schedule after the effect (or without it).
ScheduleEffect(old, new, schedule, timings, dateNow) ==
    IF ScheduleEffectRuns(old, new)
    THEN [st       |-> [new EXCEPT !.eventDensity = getRoundEventDensity(new.round),
                                   !.lastNewsUpdate = dateNow],
          schedule |-> timings]
    ELSE [st |-> new, schedule |-> schedule]

\* The game-loop effect is set up again, closing over the current state,
\* when one of [state.isGameOver, lastTickTime, lastPriceUpdate,
\* lastNetWorthUpdate, state.assets, eventSchedule] changed.
LoopEffectRuns(old, new, assetsTouched, hooksChanged) ==
    \/ old.isGameOver # new.isGameOver
    \/ assetsTouched
    \/ hooksChanged

--------------------------------------------------------------------------
(* GameProvider: achievements, the mission interval and the high score *)

AchievementIds == {"first-trade", "doubled-portfolio", "diversified"}

\* netWorth >= 20000
DoubledPortfolio == 20000

\* asset.color: both assets of the model are of one type.
AssetColor(assetId) == "stock"

\* unlockAchievement(achievement).  seen is the achievementsUnlocked of the
\* render the function belongs to, cell the useState cell and the toasts
\* shown so far: setAchievementsUnlocked(prev => ...) works on the cell.
unlockAchievement(cell, seen, achievement) ==
    IF achievement \notin seen
    THEN [unlocked |-> cell.unlocked \cup {achievement},
          toasts   |-> [cell.toasts EXCEPT ![achievement] = @ + 1]]
    ELSE cell

\* The "Achievement tracking" effect runs after a render in which
\* state.holdings or state.netWorthHistory changed.
AchievementEffectRuns(old, new) ==
    \/ old.holdings # new.holdings
    \/ old.netWorthHistory # new.netWorthHistory

\* The types of the assets held long, and of all assets.
InvestedTypes(st) ==
    { AssetColor(k) : k \in { h \in DOMAIN st.holdings :
                                /\ st.holdings[h].quantity > 0
                                /\ FindAsset(st.assets, h) # 0 } }

AssetTypes(st) == { AssetColor(st.assets[i].id) : i \in 1..Len(st.assets) }

\* The body of the effect, in the render of state st.
AchievementEffect(cell, seen, st) ==
    LET c1 == IF DOMAIN st.holdings # {} /\ "first-trade" \notin seen
              THEN unlockAchievement(cell, seen, "first-trade") ELSE cell
        c2 == IF calculateNetWorth(st) >= DoubledPortfolio
                   /\ "doubled-portfolio" \notin seen
              THEN unlockAchievement(c1, seen, "doubled-portfolio") ELSE c1
    IN  IF Cardinality(InvestedTypes(st)) >= Cardinality(AssetTypes(st))
             /\ "diversified" \notin seen
        THEN unlockAchievement(c2, seen, "diversified") ELSE c2

\* Mutant: the interval is not set up again when the pause flag changes.
MissionEffectRunsNoPauseDep(old, new) == old.isGameOver # new.isGameOver

\* The "Mission progress update" effect clears its interval and sets a new
\* one after a render in which state.isPaused or state.isGameOver changed.
MissionEffectRuns(old, new) ==
    \/ old.isPaused # new.isPaused
    \/ old.isGameOver # new.isGameOver

\* if (!state.isPaused && !state.isGameOver), on the state the interval's
\* callback closed over
MissionGuard(closure) == ~closure.isPaused /\ ~closure.isGameOver

\* The setInterval callback.  The reducer's UPDATE_MISSION_PROGRESS case is
\* not in the sources and the missions are not part of this GameState: the
\* dispatch is recorded, the state stays.
MissionTick ==
    /\ lastRun' = [RunOf("missionInterval", state) EXCEPT
                      !.dispatched = IF MissionGuard(missionInterval)
                                     THEN <<"UPDATE_MISSION_PROGRESS">>
                                     ELSE <<>>]
    /\ UNCHANGED <<clock, histVars, gameVars>>

\* Mutant: saveHighScore runs after every render of a finished game.
SaveEffectRunsEveryRender(old, new) == new.isGameOver

\* The "Save high score when game ends" effect runs after a render in which
\* state.isGameOver changed.
SaveEffectRuns(old, new) == old.isGameOver # new.isGameOver

\* saveHighScore up to its first await: if (state.isGameOver) it asks for the
\* user; calculateNetWorth is the one of this render.
saveHighScore(saves, st) ==
    IF st.isGameOver
    THEN Append(saves, [stage |-> "getUser", finalValue |-> calculateNetWorth(st)])
    ELSE saves

\* What the await of supabase.auth.getUser() may come to: a user, so that
\* the insert is requested; no user; or a rejection, caught and logged.
GetUserOutcomes == {"insertRequested", "noUser", "getUserFailed"}

\* What the await of the insert may come to: it resolves, or it is rejected,
\* caught and logged.
InsertOutcomes == {"inserted", "insertFailed"}

\* saveHighScore after supabase.auth.getUser() settled: if (user) the
\* insert of finalValue is requested and the run waits once more.
HighScoreResolves(i, outcome) ==
    /\ i \in 1..Len(highScores)
    /\ highScores[i].stage = "getUser"
    /\ highScores' = [highScores EXCEPT ![i].stage = outcome]
    /\ lastRun' = [RunOf("saveHighScore", state) EXCEPT !.ret = outcome]
    /\ UNCHANGED <<clock, histVars, state, snap, hooks, timers, newsLog,
                   idCounter, budget, achievementsUnlocked, achievementToasts,
                   missionInterval>>

\* saveHighScore after the insert settled, in a later turn of the event
\* loop: the run ends.
HighScoreInsertSettles(i, outcome) ==
    /\ i \in 1..Len(highScores)
    /\ highScores[i].stage = "insertRequested"
    /\ highScores' = [highScores EXCEPT ![i].stage = outcome]
    /\ lastRun' = [RunOf("saveHighScore", state) EXCEPT !.ret = outcome]
    /\ UNCHANGED <<clock, histVars, state, snap, hooks, timers, newsLog,
                   idCounter, budget, achievementsUnlocked, achievementToasts,
                   missionInterval>>

\* The effects beside the game loop, after the render that took the state
\* from old to new.
AfterRender(old, new) ==
    LET cell == [unlocked |-> achievementsUnlocked, toasts |-> achievementToasts]
        done == IF AchievementEffectRuns(old, new)
                THEN AchievementEffect(cell, achievementsUnlocked, new)
                ELSE cell
    IN  /\ achievementsUnlocked' = done.unlocked
        /\ achievementToasts' = done.toasts
        /\ missionInterval' =
              IF MissionEffectRuns(old, new)
              THEN [isPaused |-> new.isPaused, isGameOver |-> new.isGameOver]
              ELSE missionInterval
        /\ highScores' =
              IF SaveEffectRuns(old, new) THEN saveHighScore(highScores, new)
              ELSE highScores

\* The cells after GameProvider mounted: every effect has run once.
SideAtMount ==
    /\ achievementsUnlocked = {}
    /\ achievementToasts = [a \in AchievementIds |-> 0]
    /\ missionInterval = [isPaused |-> FALSE, isGameOver |-> FALSE]
    /\ highScores = <<>>

--------------------------------------------------------------------------
(* GameProvider: the game loop (updateTimer) *)

\* state.assets.forEach(asset => updateAssetPriceHistory(asset.id, asset.price, now))
RECURSIVE RecordAssetPrices(_, _, _, _)
RecordAssetPrices(hist, assets, timestamp, dateNow) ==
    IF assets = <<>> THEN hist
    ELSE RecordAssetPrices(
            updateAssetPriceHistory(hist, Head(assets).id, Head(assets).price,
                                    timestamp, dateNow),
            Tail(assets), timestamp, dateNow)

\* Mutant: the follow-up opens its chain once more.
FollowUpPayloadOpensChain(followUpNews, origin) ==
    [followUpNews EXCEPT
        !.chainId        = origin.chainId,
        !.chainSequence  = 1,
        !.impactedAssets = origin.impactedAssets,
        !.magnitude      = (origin.magnitude * 3) \div 2]

\* Mutant: the follow-up keeps what generateMarketNews drew for it.
FollowUpPayloadAsGenerated(followUpNews, origin) ==
    [followUpNews EXCEPT
        !.chainId       = origin.chainId,
        !.chainSequence = 2]

\* The payload of the follow-up's ADD_NEWS.
FollowUpPayload(followUpNews, origin) ==
    [followUpNews EXCEPT
        !.chainId        = origin.chainId,
        !.chainSequence  = 2,
        !.impactedAssets = origin.impactedAssets,
        !.magnitude      = (origin.magnitude * 3) \div 2]

\* What generateMarketNews, shouldBeChainedEvent and the follow-up delay may
\* come to for one scheduled event.
NewsDraws ==
    [template : NewsTemplates, chained : {FALSE}, followUpDelay : {0}]
        \cup [template : NewsTemplates, chained : {TRUE}, followUpDelay : FollowUpDelays]

\* The body of eventSchedule.forEach for a timing inside the window.
\* closure is the state the callback closed over, index the timing's place.
EmitNews(acc, index, draw, closure, now) ==
    LET generated == generateMarketNews(draw.template, acc.ids + 1, now)
        newsItem  == IF draw.chained
                     THEN [generated EXCEPT !.chainId = acc.ids + 2,
                                            !.chainSequence = 1]
                     ELSE generated
        followUp  == [due            |-> now + draw.followUpDelay,
                      origin         |-> newsItem,
                      capturedPaused |-> closure.isPaused,
                      capturedOver   |-> closure.isGameOver]
    IN  [st         |-> ReduceAddNews(acc.st, newsItem),
         schedule   |-> RemoveIndex(acc.schedule, index),
         followUps  |-> IF draw.chained THEN acc.followUps \cup {followUp}
                        ELSE acc.followUps,
         expiries   |-> acc.expiries
                          \cup {[due |-> now + NewsLifetime, id |-> newsItem.id]},
         log        |-> Append(acc.log, [item |-> newsItem, via |-> "schedule",
                                         round |-> closure.round]),
         ids        |-> IF draw.chained THEN acc.ids + 2 ELSE acc.ids + 1,
         emitted    |-> Append(acc.emitted, newsItem),
         toasts     |-> IF newsItem.magnitude > BreakingThreshold
                        THEN Append(acc.toasts, "Breaking News!")
                        ELSE acc.toasts,
         dispatched |-> Append(acc.dispatched, "ADD_NEWS")]

\* elapsedMs = (60 - state.timeRemaining) * 1000 is a double, and so is the
\* countdown it is taken from: which side of the exact milliseconds it falls
\* on depends on the frames that led to the countdown (150.00000000000568
\* after frames of 2 and 148 ms, 149.99999999999858 from 59.85).  The signs
\* of the error a frame may meet: any, where a timing of the schedule lies
\* exactly MatchWindow away and the window test depends on it; elsewhere the
\* test does not, and the exact value stands for all.
ElapsedErrors(schedule, ms) ==
    IF \E i \in 1..Len(schedule) : Abs(ms - schedule[i]) = MatchWindow
    THEN {-1, 0, 1}
    ELSE {0}

\* const elapsedMs = elapsedTime * 1000: the exact milliseconds and the sign
\* of the double's error.
ElapsedMs(closure, error) ==
    [ms |-> RoundDuration - closure.timeRemaining, error |-> error]

\* Math.abs(elapsedMs - timing) < 100 on the double.
InWindow(elapsedMs, timing) ==
    \/ Abs(elapsedMs.ms - timing) < MatchWindow
    \/ elapsedMs.ms - timing = MatchWindow /\ elapsedMs.error < 0
    \/ timing - elapsedMs.ms = MatchWindow /\ elapsedMs.error > 0

\* The indexes of the closure's schedule whose timing is inside the window.
Matching(schedule, elapsedMs) ==
    { i \in 1..Len(schedule) : InWindow(elapsedMs, schedule[i]) }

RECURSIVE NewsLoop(_, _, _, _, _, _, _)
NewsLoop(acc, index, schedule, elapsedMs, draws, closure, now) ==
    IF index > Len(schedule) THEN acc
    ELSE NewsLoop(
            IF index \in Matching(schedule, elapsedMs)
            THEN EmitNews(acc, index, draws[index], closure, now)
            ELSE acc,
            index + 1, schedule, elapsedMs, draws, closure, now)

\* "Check scheduled news events": if (!state.isPaused)
NewsCheckOpen(closure) == ~closure.isPaused

\* if (!state.isGameOver)
LoopGate(closure) == ~closure.isGameOver

NetWorthDue(now, lastNetWorthUpdate) ==
    now - lastNetWorthUpdate >= PRICE_UPDATE_INTERVAL

PriceDue(now, lastPriceUpdate) ==
    now - lastPriceUpdate >= PRICE_UPDATE_INTERVAL

\* Whether this TICK takes the countdown to 0.
TickEndsRound(st, deltaTime) ==
    ~st.isPaused /\ ~st.isGameOver /\ st.timeRemaining - deltaTime <= 0

MoveDraws(due) ==
    IF due THEN PriceMoves ELSE {[a \in AssetIds |-> 0]}

\* rolls: whether Math.random() < 0.02 may come true in this frame.
HealthDraws(rolls) == IF rolls THEN {0} \cup HealthChanges ELSE {0}

\* A frame while the closure's state is game over: nothing but the next
\* requestAnimationFrame.
FrameIdle(dt, maxFrames) ==
    /\ budget.frames < maxFrames
    /\ ~LoopGate(snap)
    /\ clock' = clock + dt
    /\ budget' = [budget EXCEPT !.frames = @ + 1]
    /\ lastRun' = RunOf("frame", state)
    /\ UNCHANGED <<histVars, state, snap, hooks, timers, newsLog, idCounter, sideVars>>

\* The first frame: lastTickTime === null.
FrameFirst(dt, maxFrames) ==
    /\ budget.frames < maxFrames
    /\ LoopGate(snap)
    /\ hooks.lastTickTime = NoTick
    /\ clock' = clock + dt
    /\ budget' = [budget EXCEPT !.frames = @ + 1]
    /\ hooks' = [hooks EXCEPT !.lastTickTime = clock + dt]
    /\ snap' = state
    /\ lastRun' = RunOf("frame", state)
    /\ UNCHANGED <<histVars, state, timers, newsLog, idCounter, sideVars>>

\* Every later frame.
FrameRun(dt, maxFrames, move, health, error, draws, timings) ==
    LET timestamp == clock + dt
        now       == clock + dt
        closure   == snap
        deltaTime == timestamp - hooks.lastTickTime
        s1        == ReduceTick(state, deltaTime)
        priceDue  == PriceDue(now, hooks.lastPriceUpdate)
        s2        == IF priceDue THEN ReduceUpdatePrices(s1, move) ELSE s1
        elapsedMs == ElapsedMs(closure, error)
        acc0      == [st |-> s2, schedule |-> hooks.eventSchedule,
                      followUps |-> timers.followUps, expiries |-> timers.expiries,
                      log |-> newsLog, ids |-> idCounter, emitted |-> <<>>,
                      toasts |-> <<>>, dispatched |-> <<>>]
        acc       == IF NewsCheckOpen(closure)
                     THEN NewsLoop(acc0, 1, hooks.eventSchedule, elapsedMs, draws,
                                   closure, now)
                     ELSE acc0
        newHealth == Max2(0, Min2(100, closure.marketHealth + health))
        s4        == IF health # 0 THEN ReduceMarketHealth(acc.st, newHealth) ELSE acc.st
        nwDue     == NetWorthDue(now, hooks.lastNetWorthUpdate)
        netWorth  == calculateNetWorth(closure)
        s5        == IF nwDue THEN ReduceNetWorth(s4, now) ELSE s4
        eff       == ScheduleEffect(state, s5, acc.schedule, timings, now)
    IN  /\ budget.frames < maxFrames
        /\ LoopGate(closure)
        /\ hooks.lastTickTime # NoTick
        /\ clock' = now
        /\ budget' = [budget EXCEPT !.frames = @ + 1]
        /\ state' = eff.st
        /\ snap' = eff.st
        /\ AfterRender(state, eff.st)
        /\ hooks' = [lastTickTime       |-> timestamp,
                     lastPriceUpdate    |-> IF priceDue THEN now
                                            ELSE hooks.lastPriceUpdate,
                     lastNetWorthUpdate |-> IF nwDue THEN now
                                            ELSE hooks.lastNetWorthUpdate,
                     eventSchedule      |-> eff.schedule]
        /\ timers' = [followUps |-> acc.followUps, expiries |-> acc.expiries]
        /\ newsLog' = acc.log
        /\ idCounter' = acc.ids
        /\ assetPriceHistory' =
              IF priceDue
              THEN RecordAssetPrices(assetPriceHistory, closure.assets, now, now)
              ELSE assetPriceHistory
        /\ portfolioHistory' =
              IF nwDue THEN updatePortfolioHistory(portfolioHistory, netWorth, now, NoEvent)
              ELSE portfolioHistory
        /\ histCalls' =
              [k \in DOMAIN histCalls |->
                  IF k = PortfolioKey
                  THEN histCalls[k] + (IF nwDue THEN 1 ELSE 0)
                  ELSE histCalls[k] + (IF priceDue THEN 1 ELSE 0)]
        /\ lastRun' =
              [RunOf("frame", state) EXCEPT
                  !.ledger     = [cash |-> closure.cash, holdings |-> closure.holdings],
                  !.dispatched = <<"TICK">>
                                   \o (IF priceDue THEN <<"UPDATE_PRICES">> ELSE <<>>)
                                   \o acc.dispatched
                                   \o (IF health # 0 THEN <<"UPDATE_MARKET_HEALTH">>
                                       ELSE <<>>)
                                   \o (IF nwDue THEN <<"UPDATE_NET_WORTH">> ELSE <<>>),
                  !.emitted    = acc.emitted,
                  !.toasts     = acc.toasts,
                  !.roundEnded = TickEndsRound(state, deltaTime),
                  !.priceDue   = priceDue,
                  !.nwDue      = nwDue,
                  !.netWorth   = netWorth,
                  !.scheduleBefore = hooks.eventSchedule,
                  !.fired      = IF NewsCheckOpen(closure)
                                 THEN { hooks.eventSchedule[i] :
                                          i \in Matching(hooks.eventSchedule, elapsedMs) }
                                 ELSE {},
                  !.scheduleLeft = acc.schedule]

Frame(maxFrames, deltas, rolls) ==
    \E dt \in deltas :
        \/ FrameIdle(dt, maxFrames)
        \/ FrameFirst(dt, maxFrames)
        \/ \E move \in MoveDraws(PriceDue(clock + dt, hooks.lastPriceUpdate)) :
           \E health \in HealthDraws(rolls) :
           \E error \in ElapsedErrors(hooks.eventSchedule,
                                      RoundDuration - snap.timeRemaining) :
           \E draws \in [ (IF NewsCheckOpen(snap)
                           THEN Matching(hooks.eventSchedule,
                                         ElapsedMs(snap, error))
                           ELSE {}) -> NewsDraws ] :
           \E timings \in ScheduleDraws(state,
                             ReduceTick(state, clock + dt - hooks.lastTickTime)) :
              FrameRun(dt, maxFrames, move, health, error, draws, timings)

--------------------------------------------------------------------------
(* GameProvider: the setTimeout callbacks *)

\* A timer fires no earlier than it is due and after every timer due before it.
FiresNext(t) == \A u \in AllTimers : t.due <= u.due

\* The follow-up's guard reads the state its callback closed over.
FollowUpGuard(t) == ~t.capturedPaused /\ ~t.capturedOver

\* setTimeout(() => { if (!state.isPaused && !state.isGameOver) ... }, followUpDelay)
FollowUpFire(t, template) ==
    LET now          == Max2(clock, t.due)
        followUpNews == generateMarketNews(template, idCounter + 1, now)
        payload      == FollowUpPayload(followUpNews, t.origin)
        fires        == FollowUpGuard(t)
    IN  /\ t \in timers.followUps
        /\ FiresNext(t)
        /\ clock' = now
        /\ timers' = [timers EXCEPT !.followUps = @ \ {t}]
        /\ state' = IF fires THEN ReduceAddNews(state, payload) ELSE state
        /\ newsLog' = IF fires
                      THEN Append(newsLog, [item |-> payload, via |-> "followUp",
                                            round |-> state.round])
                      ELSE newsLog
        /\ idCounter' = IF fires THEN idCounter + 1 ELSE idCounter
        \* ADD_NEWS replaces state.assets, a dependency of the game loop
        /\ snap' = IF LoopEffectRuns(state, state', fires, FALSE) THEN state' ELSE snap
        /\ lastRun' = [RunOf("followUp", state) EXCEPT
                          !.dispatched = IF fires THEN <<"ADD_NEWS">> ELSE <<>>,
                          !.emitted    = IF fires THEN <<payload>> ELSE <<>>]
        /\ AfterRender(state, state')
        /\ UNCHANGED <<histVars, hooks, budget>>

\* setTimeout(() => dispatch({ type: 'EXPIRE_NEWS', payload: newsItem.id }), 15000)
ExpireFire(t) ==
    /\ t \in timers.expiries
    /\ FiresNext(t)
    /\ clock' = Max2(clock, t.due)
    /\ timers' = [timers EXCEPT !.expiries = @ \ {t}]
    /\ state' = ReduceExpireNews(state, t.id)
    /\ AfterRender(state, state')
    /\ lastRun' = [RunOf("expire", state) EXCEPT !.dispatched = <<"EXPIRE_NEWS">>]
    /\ UNCHANGED <<histVars, snap, hooks, newsLog, idCounter, budget>>

--------------------------------------------------------------------------
(* GameProvider: the commands *)

\* The amount a player may ask for: units for buy and short, currency for
\* sell and cover.
TradeAmount(action, units, price) ==
    IF action \in {"buy", "short"} THEN units ELSE units * price

\* if (state.isGameOver) return; ... if (!asset) return;
TradeRefused(st, assetId) ==
    st.isGameOver \/ FindAsset(st.assets, assetId) = 0

executeTrade(assetId, action, units, maxTrades) ==
    LET idx    == FindAsset(state.assets, assetId)
        price  == state.assets[idx].price
        amount == TradeAmount(action, units, price)
    IN  IF TradeRefused(state, assetId)
        THEN \* a bare return of a function typed => void
             /\ lastRun' = [RunOf("executeTrade", state) EXCEPT !.ret = "undefined"]
             /\ UNCHANGED <<clock, histVars, gameVars>>
        ELSE /\ budget.trades < maxTrades
             /\ state' = ReduceExecuteTrade(state, assetId, action, amount, price)
             /\ AfterRender(state, state')
             /\ budget' = [budget EXCEPT !.trades = @ + 1]
             /\ lastRun' = [RunOf("executeTrade", state) EXCEPT
                               !.dispatched = <<"EXECUTE_TRADE">>]
             /\ UNCHANGED <<clock, histVars, snap, hooks, timers, newsLog, idCounter>>

startGame(timings) ==
    LET now == clock
        s1  == ReduceStartGame(state)
        eff == ScheduleEffect(state, s1, hooks.eventSchedule, timings, now)
    IN  /\ budget.starts < MaxStarts
        /\ timings \in ScheduleDraws(state, s1)
        /\ budget' = [budget EXCEPT !.starts = @ + 1]
        /\ state' = eff.st
        /\ AfterRender(state, eff.st)
        /\ hooks' = [hooks EXCEPT !.eventSchedule = eff.schedule]
        \* START_GAME builds the assets anew
        /\ snap' = eff.st
        /\ assetPriceHistory' = RecordAssetPrices(assetPriceHistory, state.assets, now, now)
        /\ portfolioHistory' =
              updatePortfolioHistory(portfolioHistory, calculateNetWorth(state), now, NoEvent)
        /\ histCalls' = [k \in DOMAIN histCalls |-> histCalls[k] + 1]
        /\ lastRun' = [RunOf("startGame", state) EXCEPT
                          !.dispatched = <<"START_GAME">>,
                          !.toasts = <<"Game Started">>]
        /\ UNCHANGED <<clock, timers, newsLog, idCounter>>

\* The state after endGame's dispatch and the effects that follow it.
EndGameStep(op, roundEnded) ==
    /\ state' = ReduceEndGame(state)
    /\ AfterRender(state, state')
    /\ snap' = IF LoopEffectRuns(state, state', FALSE, FALSE) THEN state' ELSE snap
    /\ lastRun' = [RunOf(op, state) EXCEPT
                      !.dispatched = <<"END_GAME">>,
                      !.toasts = <<"Game Over">>,
                      !.roundEnded = roundEnded]
    /\ UNCHANGED <<clock, histVars, hooks, timers, newsLog, idCounter, budget>>

endGame == EndGameStep("endGame", FALSE)

\* Mutant: the last round is taken to be the one after round 10.
NextRoundEndsGameOffByOne(st) == st.round > MaxRound

\* if (state.round >= 10)
NextRoundEndsGame(st) == st.round >= MaxRound

nextRound(timings) ==
    IF NextRoundEndsGame(state)
    THEN /\ timings = <<>>
         /\ EndGameStep("nextRound", TRUE)
    ELSE LET s1  == ReduceNextRound(state)
             eff == ScheduleEffect(state, s1, hooks.eventSchedule, timings, clock)
         IN  /\ timings \in ScheduleDraws(state, s1)
             /\ state' = eff.st
             /\ AfterRender(state, eff.st)
             /\ hooks' = [hooks EXCEPT !.eventSchedule = eff.schedule]
             /\ snap' = IF LoopEffectRuns(state, eff.st, FALSE,
                                          ScheduleEffectRuns(state, s1))
                        THEN eff.st ELSE snap
             /\ lastRun' = [RunOf("nextRound", state) EXCEPT
                               !.dispatched = <<"NEXT_ROUND">>,
                               !.toasts = <<"Round">>,
                               !.roundEnded = TRUE]
             /\ UNCHANGED <<clock, histVars, timers, newsLog, idCounter, budget>>

pauseToggle(timings) ==
    LET s1  == ReduceTogglePause(state)
        eff == ScheduleEffect(state, s1, hooks.eventSchedule, timings, clock)
    IN  /\ budget.pauses < MaxPauses
        /\ timings \in ScheduleDraws(state, s1)
        /\ budget' = [budget EXCEPT !.pauses = @ + 1]
        /\ state' = eff.st
        /\ AfterRender(state, eff.st)
        /\ hooks' = [hooks EXCEPT !.eventSchedule = eff.schedule]
        /\ snap' = IF LoopEffectRuns(state, eff.st, FALSE,
                                     ScheduleEffectRuns(state, s1))
                   THEN eff.st ELSE snap
        /\ lastRun' = [RunOf("pauseToggle", state) EXCEPT
                          !.dispatched = <<"TOGGLE_PAUSE">>]
        /\ UNCHANGED <<clock, histVars, timers, newsLog, idCounter>>

AllSchedules ==
    UNION { scheduleRoundEvents(n) : n \in 0..Cardinality(ScheduleOffsets) }

\* The unlockAchievement calls one handler of a consumer of the context may
\* make before the provider renders again: one id, once or more.
UnlockCallSequences ==
    { [i \in 1..n |-> a] : a \in AchievementIds, n \in 1..MaxUnlockCalls }

RECURSIVE UnlockAll(_, _, _)
UnlockAll(cell, seen, calls) ==
    IF calls = <<>> THEN cell
    ELSE UnlockAll(unlockAchievement(cell, seen, Head(calls)), seen, Tail(calls))

\* A handler that calls unlockAchievement for each id of calls: every call
\* is the function of the same render.
UnlockCalls(calls) ==
    LET cell == [unlocked |-> achievementsUnlocked, toasts |-> achievementToasts]
        done == UnlockAll(cell, achievementsUnlocked, calls)
    IN  /\ achievementsUnlocked' = done.unlocked
        /\ achievementToasts' = done.toasts
        /\ lastRun' = [RunOf("unlockAchievement", state) EXCEPT !.calls = calls]
        /\ UNCHANGED <<clock, histVars, state, snap, hooks, timers, newsLog,
                       idCounter, budget, missionInterval, highScores>>

--------------------------------------------------------------------------
(* The game specification *)

\* The state after GameProvider mounted: the "Initialize assets and
\* portfolio history" effect and the schedule effect have run.
Init ==
    /\ clock = StartClock
    /\ assetPriceHistory =
          RecordAssetPrices(<< >>, initialGameState.assets, StartClock, StartClock)
    /\ portfolioHistory =
          updatePortfolioHistory(EmptyPortfolioHistory,
                                 calculateNetWorth(initialGameState), StartClock,
                                 NoEvent)
    /\ histCalls = [k \in AssetIds \cup {PortfolioKey} |-> 1]
    /\ state = [initialGameState EXCEPT
                   !.eventDensity = getRoundEventDensity(1),
                   !.lastNewsUpdate = StartClock]
    /\ snap = state
    /\ \E timings \in scheduleRoundEvents(
                         calculateRoundEventCount(getRoundEventDensity(1))) :
          hooks = [lastTickTime |-> NoTick, lastPriceUpdate |-> 0,
                   lastNetWorthUpdate |-> 0, eventSchedule |-> timings]
    /\ timers = [followUps |-> {}, expiries |-> {}]
    /\ newsLog = <<>>
    /\ idCounter = 0
    /\ budget = [frames |-> 0, trades |-> 0, starts |-> 0, pauses |-> 0]
    /\ SideAtMount
    /\ lastRun = RunOf("mount", initialGameState)

TimerFires ==
    \/ \E t \in timers.followUps : \E template \in HighImpactTemplates :
          FollowUpFire(t, template)
    \/ \E t \in timers.expiries : ExpireFire(t)

Trades(maxTrades) ==
    \E assetId \in AssetIds \cup {"none"} : \E action \in TradeActions :
    \E units \in TradeUnits :
        executeTrade(assetId, action, units, maxTrades)

\* The news engine: the loop, its timers, pausing and the end of the game.
NextNews ==
    \/ Frame(MaxFrames, VisibleDeltas, TRUE)
    \/ TimerFires
    \/ \E timings \in AllSchedules : pauseToggle(timings)
    \/ endGame

SpecNews == Init /\ [][NextNews]_vars

\* The ledger: trades against the prices the loop moves.
NextLedger ==
    \/ Frame(MaxFrames, LedgerDeltas, FALSE)
    \/ TimerFires
    \/ Trades(MaxTrades)
    \/ endGame

SpecLedger == Init /\ [][NextLedger]_vars

\* The round state machine: rounds end by the countdown or by nextRound.
NextRounds ==
    \/ Frame(MaxRoundFrames, RoundDeltas, FALSE)
    \/ TimerFires
    \/ \E timings \in AllSchedules : startGame(timings)
    \/ \E timings \in AllSchedules : nextRound(timings)

SpecRounds == Init /\ [][NextRounds]_vars

\* The achievements: trades and net-worth ticks earn them, and a consumer of
\* the context may unlock them itself.
NextAchievements ==
    \/ Frame(MaxFrames, LedgerDeltas, FALSE)
    \/ Trades(MaxAchievementTrades)
    \/ \E calls \in UnlockCallSequences : UnlockCalls(calls)
    \/ endGame

SpecAchievements == Init /\ [][NextAchievements]_vars

\* The high score: a game that ends, with a position or without, and the
\* store's answers.
NextHighScore ==
    \/ Frame(MaxFrames, LedgerDeltas, FALSE)
    \/ Trades(MaxAchievementTrades)
    \/ endGame
    \/ \E i \in 1..Len(highScores) : \E outcome \in GetUserOutcomes :
          HighScoreResolves(i, outcome)
    \/ \E i \in 1..Len(highScores) : \E outcome \in InsertOutcomes :
          HighScoreInsertSettles(i, outcome)

SpecHighScore == Init /\ [][NextHighScore]_vars

\* The round's schedule: slow frames in the rounds that nextRound starts.
NextSchedule ==
    \/ Frame(MaxScheduleFrames, WindowDeltas, FALSE)
    \/ \E timings \in AllSchedules : nextRound(timings)

SpecSchedule == Init /\ [][NextSchedule]_vars

\* The round's schedule when the round is paused and resumed.
NextResume ==
    \/ Frame(MaxScheduleFrames, ScheduleDeltas, FALSE)
    \/ TimerFires
    \/ \E timings \in AllSchedules : pauseToggle(timings)
    \/ endGame

SpecResume == Init /\ [][NextResume]_vars

\* The mission interval among pause toggles, game over and a new game.
NextMissions ==
    \/ MissionTick
    \/ \E timings \in AllSchedules : pauseToggle(timings)
    \/ \E timings \in AllSchedules : startGame(timings)
    \/ endGame

SpecMissions == Init /\ [][NextMissions]_vars

--------------------------------------------------------------------------
(* The history store on its own: series one call short of their caps *)

\* The price of the i-th call that filled a series: the oldest point is the
\* lowest of the series.
PrefillPrice(i) == IF i = 1 THEN OldestPrice ELSE IF i % 2 = 1 THEN 10 ELSE 30

\* The calls lo..hi of updateAssetPriceHistory on one asset, the i-th at
\* time i.
RECURSIVE PrefillAsset(_, _, _, _)
PrefillAsset(hist, assetId, lo, hi) ==
    IF lo > hi THEN hist
    ELSE LET next == updateAssetPriceHistory(hist, assetId, PrefillPrice(lo), lo, lo)
         IN  IF assetId \in DOMAIN next THEN PrefillAsset(next, assetId, lo + 1, hi)
             ELSE next

\* The calls lo..hi of updatePortfolioHistory, the i-th at time i.
RECURSIVE PrefillPortfolio(_, _, _)
PrefillPortfolio(ph, lo, hi) ==
    IF lo > hi THEN ph
    ELSE LET next == updatePortfolioHistory(ph, PrefillPrice(lo), lo, NoEvent)
         IN  IF Len(next.values) > 0 THEN PrefillPortfolio(next, lo + 1, hi)
             ELSE next

\* The series after AssetHistoryCap - 1 and PortfolioHistoryCap - 1 calls.
AssetSeriesNearCap == PrefillAsset(<< >>, "a1", 1, AssetHistoryCap - 1)

PortfolioSeriesQuarter == PrefillPortfolio(EmptyPortfolioHistory, 1, 50)

PortfolioSeriesHalf == PrefillPortfolio(PortfolioSeriesQuarter, 51, 100)

PortfolioSeriesMost == PrefillPortfolio(PortfolioSeriesHalf, 101, 150)

PortfolioSeriesNearCap ==
    PrefillPortfolio(PortfolioSeriesMost, 151, PortfolioHistoryCap - 1)

\* The game is at rest in the specifications of the pure parts.
GameAtRest ==
    /\ state = initialGameState
    /\ snap = initialGameState
    /\ hooks = [lastTickTime |-> NoTick, lastPriceUpdate |-> 0,
                lastNetWorthUpdate |-> 0, eventSchedule |-> <<>>]
    /\ timers = [followUps |-> {}, expiries |-> {}]
    /\ newsLog = <<>>
    /\ idCounter = 0
    /\ budget = [frames |-> 0, trades |-> 0, starts |-> 0, pauses |-> 0]
    /\ SideAtMount

\* "a1" is one call short of the cap, "a2" has no series yet, the portfolio
\* series is one call short of its cap.
InitHist ==
    /\ GameAtRest
    /\ clock = StartClock
    /\ assetPriceHistory = AssetSeriesNearCap
    /\ portfolioHistory = PortfolioSeriesNearCap
    /\ histCalls = [k \in AssetIds \cup {PortfolioKey} |->
                      IF k = "a1" THEN AssetHistoryCap - 1
                      ELSE IF k = PortfolioKey THEN PortfolioHistoryCap - 1
                      ELSE 0]
    /\ lastRun = RunOf("mount", initialGameState)

HistCallsLeft(k) ==
    histCalls[k] < MaxHistCalls
                     + (IF k = "a1" THEN AssetHistoryCap - 1
                        ELSE IF k = PortfolioKey THEN PortfolioHistoryCap - 1
                        ELSE 0)

CallUpdateAssetPriceHistory(assetId, price) ==
    /\ HistCallsLeft(assetId)
    /\ assetPriceHistory' =
          updateAssetPriceHistory(assetPriceHistory, assetId, price,
                                  histCalls[assetId] + 1, histCalls[assetId] + 1)
    /\ histCalls' = [histCalls EXCEPT ![assetId] = @ + 1]
    /\ lastRun' = RunOf("updateAssetPriceHistory", state)
    /\ UNCHANGED <<clock, portfolioHistory, gameVars>>

\* A direct call of the exported initAssetPriceHistory: the asset's series
\* starts over with one point at Date.now().
CallInitAssetPriceHistory(assetId, initialPrice) ==
    /\ HistCallsLeft(assetId)
    /\ assetPriceHistory' =
          initAssetPriceHistory(assetPriceHistory, assetId, initialPrice,
                                histCalls[assetId] + 1)
    /\ lastRun' = RunOf("initAssetPriceHistory", state)
    /\ UNCHANGED <<clock, portfolioHistory, histCalls, gameVars>>

\* The price a direct call of initAssetPriceHistory starts a series with.
InitPrices == {30}

\* The calls of updatePortfolioHistory: two arguments, or the note of a
\* trade as the third.
PortfolioCalls ==
    {<<10, NoEvent>>, <<30, NoEvent>>,
     <<30, [type |-> "trade", description |-> "bought"]>>}

CallUpdatePortfolioHistory(value, event) ==
    /\ HistCallsLeft(PortfolioKey)
    /\ portfolioHistory' =
          updatePortfolioHistory(portfolioHistory, value,
                                 histCalls[PortfolioKey] + 1, event)
    /\ histCalls' = [histCalls EXCEPT ![PortfolioKey] = @ + 1]
    /\ lastRun' = RunOf("updatePortfolioHistory", state)
    /\ UNCHANGED <<clock, assetPriceHistory, gameVars>>

NextHist ==
    \/ \E assetId \in AssetIds : \E price \in HistPrices :
          CallUpdateAssetPriceHistory(assetId, price)
    \/ \E assetId \in AssetIds : \E initialPrice \in InitPrices :
          CallInitAssetPriceHistory(assetId, initialPrice)
    \/ \E call \in PortfolioCalls : CallUpdatePortfolioHistory(call[1], call[2])

SpecHist == InitHist /\ [][NextHist]_vars

--------------------------------------------------------------------------
(* calculateNetWorth on its own: one call on every drawn state *)

\* "a3" is a holding whose asset is not in state.assets.
HoldingIds == AssetIds \cup {"a3"}

NetWorthCash == {0, 1000}

NetWorthPrices == {30, 50}

NetWorthHoldings ==
    [quantity : {0, 2}, shortQuantity : {0, 1}, averageShortPrice : {40}]

InitNetWorth ==
    /\ clock = StartClock
    /\ assetPriceHistory = << >>
    /\ portfolioHistory = EmptyPortfolioHistory
    /\ histCalls = [k \in AssetIds \cup {PortfolioKey} |-> 0]
    /\ \E cash \in NetWorthCash : \E keys \in SUBSET HoldingIds :
       \E holdings \in [keys -> NetWorthHoldings] :
       \E p1 \in NetWorthPrices : \E p2 \in NetWorthPrices :
          state = [initialGameState EXCEPT
                      !.cash = cash,
                      !.holdings = holdings,
                      !.assets = <<[id |-> "a1", price |-> p1],
                                   [id |-> "a2", price |-> p2]>>]
    /\ snap = state
    /\ hooks = [lastTickTime |-> NoTick, lastPriceUpdate |-> 0,
                lastNetWorthUpdate |-> 0, eventSchedule |-> <<>>]
    /\ timers = [followUps |-> {}, expiries |-> {}]
    /\ newsLog = <<>>
    /\ idCounter = 0
    /\ budget = [frames |-> 0, trades |-> 0, starts |-> 0, pauses |-> 0]
    /\ SideAtMount
    /\ lastRun = RunOf("mount", state)

CallCalculateNetWorth ==
    /\ lastRun.op = "mount"
    /\ lastRun' = [RunOf("calculateNetWorth", state) EXCEPT
                      !.netWorth = calculateNetWorth(state)]
    /\ UNCHANGED <<clock, histVars, gameVars>>

NextNetWorth == CallCalculateNetWorth

SpecNetWorth == InitNetWorth /\ [][NextNetWorth]_vars

--------------------------------------------------------------------------
(* The trend series: generatePriceHistory (AssetList) and                  *)
(* generateEnhancedSparklineData (chartUtils) on drawn assets              *)

\* const points = 20 and the default of length
TrendPoints == 20

\* The longest series asked for beside the default.
MaxTrendLength == 5

\* Math.random() in hundredths, asset.volatility in hundredths, the factors
\* 0.3 and 0.6 in tenths: a deviation is kept as a multiple of 1 / TrendScale.
TrendScale == 100000

TrendDraws == {0, 50, 99}

TrendPrices == {10, 30}

TrendVolatilities == {5, 20}

\* The random source: the draw of every intermediate point.
TrendRolls ==
    { [i \in 1..TrendPoints |-> r] : r \in TrendDraws }
        \cup { [i \in 1..TrendPoints |-> IF i % 2 = 1 THEN 0 ELSE 99] }

\* A value as the exact fraction num / den.
Whole(x) == [num |-> x, den |-> 1]

SameValue(v, x) == v.num = x * v.den

\* Mutant: the loop runs up to the last index.
TrendIndicesToLast(length) == 1..(length - 1)

\* for (let i = 1; i < length - 1; i++)
TrendIndices(length) == 1..(length - 2)

\* The value of intermediate point i of a series of the given length:
\* position = i / (length - 1); trendFactor = position > 0.5 ?
\* (position - 0.5) * 2 : 0; baseValue = previousPrice * (1 - position) +
\* basePrice * position; deviation = (Math.random() - 0.5) * volatility *
\* basePrice * spread; value = baseValue + deviation * (1 - trendFactor).
TrendValue(asset, length, i, roll, spread) ==
    LET n      == length - 1
        weight == IF 2 * i > n THEN 2 * (n - i) ELSE n
        base   == asset.previousPrice * (n - i) + asset.price * i
        dev    == (roll - 50) * asset.volatility * asset.price * spread
    IN  [num |-> base * TrendScale + dev * weight, den |-> n * TrendScale]

\* AssetList: generatePriceHistory(asset)
generatePriceHistory(asset, rolls) ==
    LET points == TrendPoints
        middle == [i \in TrendIndices(points) |->
                      [value |-> TrendValue(asset, points, i, rolls[i], 3)]]
    IN  <<[value |-> Whole(asset.previousPrice)]>>
            \o middle
            \o <<[value |-> Whole(asset.price)]>>

\* chartUtils: generateEnhancedSparklineData(asset, length = 20)
generateEnhancedSparklineData(asset, length, rolls, dateNow) ==
    LET first  == [value |-> Whole(asset.previousPrice),
                   timestamp |-> dateNow - length * 500]
        middle == [i \in TrendIndices(length) |->
                      [value |-> TrendValue(asset, length, i, rolls[i], 6),
                       timestamp |-> first.timestamp + i * 500]]
    IN  <<first>> \o middle
            \o <<[value |-> Whole(asset.price), timestamp |-> dateNow]>>

TrendLengths == (2..MaxTrendLength) \cup {TrendPoints}

TrendAssets ==
    [id : {"a1"}, price : TrendPrices, previousPrice : TrendPrices,
     volatility : TrendVolatilities]

InitTrend ==
    /\ clock = StartClock
    /\ assetPriceHistory = << >>
    /\ portfolioHistory = EmptyPortfolioHistory
    /\ histCalls = [k \in AssetIds \cup {PortfolioKey} |-> 0]
    /\ \E asset \in TrendAssets : state = [initialGameState EXCEPT !.assets = <<asset>>]
    /\ snap = state
    /\ hooks = [lastTickTime |-> NoTick, lastPriceUpdate |-> 0,
                lastNetWorthUpdate |-> 0, eventSchedule |-> <<>>]
    /\ timers = [followUps |-> {}, expiries |-> {}]
    /\ newsLog = <<>>
    /\ idCounter = 0
    /\ budget = [frames |-> 0, trades |-> 0, starts |-> 0, pauses |-> 0]
    /\ SideAtMount
    /\ lastRun = RunOf("mount", state)

CallGeneratePriceHistory(rolls) ==
    /\ lastRun.op = "mount"
    /\ lastRun' = [RunOf("generatePriceHistory", state) EXCEPT
                      !.length = TrendPoints,
                      !.series = generatePriceHistory(state.assets[1], rolls)]
    /\ UNCHANGED <<clock, histVars, gameVars>>

CallGenerateEnhancedSparklineData(length, rolls) ==
    /\ lastRun.op = "mount"
    /\ lastRun' = [RunOf("generateEnhancedSparklineData", state) EXCEPT
                      !.length = length,
                      !.series = generateEnhancedSparklineData(
                                     state.assets[1], length, rolls, clock)]
    /\ UNCHANGED <<clock, histVars, gameVars>>

NextTrend ==
    \/ \E rolls \in TrendRolls : CallGeneratePriceHistory(rolls)
    \/ \E length \in TrendLengths : \E rolls \in TrendRolls :
          CallGenerateEnhancedSparklineData(length, rolls)

SpecTrend == InitTrend /\ [][NextTrend]_vars

--------------------------------------------------------------------------
(* Properties *)

Last(seq) == seq[Len(seq)]

\* What a call keeps of a series: all of it, or all but the oldest point
\* when the series is at its cap.
KeptOf(seq, cap) == IF Len(seq) = cap THEN Tail(seq) ELSE seq

AssetSeriesWithinCap ==
    \A a \in DOMAIN assetPriceHistory :
        /\ Len(assetPriceHistory[a].timestamps) <= AssetHistoryCap
        /\ Len(assetPriceHistory[a].prices) <= AssetHistoryCap
        /\ Len(assetPriceHistory[a].data) <= AssetHistoryCap

PortfolioSeriesWithinCap ==
    /\ Len(portfolioHistory.timestamps) <= PortfolioHistoryCap
    /\ Len(portfolioHistory.values) <= PortfolioHistoryCap
    /\ Len(portfolioHistory.data) <= PortfolioHistoryCap

\* A call on an existing asset series appends its point behind what is kept.
AssetCallDropsOldest ==
    \A a \in DOMAIN assetPriceHistory :
        histCalls'[a] = histCalls[a] + 1 =>
            LET old == assetPriceHistory[a]
                new == assetPriceHistory'[a]
                t   == histCalls'[a]
            IN  \E price \in HistPrices :
                    /\ new.timestamps = Append(KeptOf(old.timestamps, AssetHistoryCap), t)
                    /\ new.prices = Append(KeptOf(old.prices, AssetHistoryCap), price)
                    /\ new.data = Append(KeptOf(old.data, AssetHistoryCap),
                                         [value |-> price, timestamp |-> t])

PortfolioCallDropsOldest ==
    histCalls'[PortfolioKey] = histCalls[PortfolioKey] + 1 =>
        LET old == portfolioHistory
            new == portfolioHistory'
            t   == histCalls'[PortfolioKey]
        IN  \E value \in HistPrices :
                /\ new.timestamps = Append(KeptOf(old.timestamps, PortfolioHistoryCap), t)
                /\ new.values = Append(KeptOf(old.values, PortfolioHistoryCap), value)
                /\ new.data = Append(KeptOf(old.data, PortfolioHistoryCap),
                                     [value |-> value, timestamp |-> t])

\* C1: after any sequence of updateAssetPriceHistory and
\* updatePortfolioHistory calls every per-asset series holds at most 50
\* points and the portfolio series at most 200, and a call that exceeds the
\* cap drops the single oldest point and keeps the new one.
C1_HistoryCaps ==
    /\ [](AssetSeriesWithinCap /\ PortfolioSeriesWithinCap)
    /\ [][AssetCallDropsOldest /\ PortfolioCallDropsOldest]_vars

\* Both kinds of series have been pushed past their cap.
C1_Witness ==
    /\ histCalls["a1"] > AssetHistoryCap
    /\ Len(assetPriceHistory["a1"].data) = AssetHistoryCap
    /\ histCalls[PortfolioKey] > PortfolioHistoryCap
    /\ Len(portfolioHistory.data) = PortfolioHistoryCap

RECURSIVE SumOver(_, _)
SumOver(f, keys) ==
    IF keys = {} THEN 0
    ELSE LET k == CHOOSE x \in keys : TRUE
         IN  f[k] + SumOver(f, keys \ {k})

\* The holdings whose asset has a price, and that price.
PricedHoldings(st) ==
    { k \in DOMAIN st.holdings : \E i \in 1..Len(st.assets) : st.assets[i].id = k }

PriceOf(st, k) ==
    st.assets[CHOOSE i \in 1..Len(st.assets) : st.assets[i].id = k].price

\* cash + sum of quantity * price + sum of shortQuantity * (averageShortPrice - price)
NetWorthFormula(st) ==
    LET keys == PricedHoldings(st)
    IN  st.cash
          + SumOver([k \in keys |-> st.holdings[k].quantity * PriceOf(st, k)], keys)
          + SumOver([k \in keys |->
                        st.holdings[k].shortQuantity
                          * (st.holdings[k].averageShortPrice - PriceOf(st, k))], keys)

\* cash=1000, quantity=2 at price 50, shortQuantity=1 with averageShortPrice=40
\* and current price 30
NetWorthExample(st) ==
    /\ st.cash = 1000
    /\ DOMAIN st.holdings = {"a1", "a2"}
    /\ st.holdings["a1"].quantity = 2 /\ st.holdings["a1"].shortQuantity = 0
    /\ st.holdings["a2"].quantity = 0 /\ st.holdings["a2"].shortQuantity = 1
    /\ st.holdings["a2"].averageShortPrice = 40
    /\ PriceOf(st, "a1") = 50 /\ PriceOf(st, "a2") = 30

\* C2: for every combination of cash, holdings and asset prices
\* calculateNetWorth returns cash + sum of quantity*price + sum of
\* shortQuantity*(averageShortPrice - price); the example gives 1110.
C2_NetWorthFormula ==
    lastRun.op = "calculateNetWorth" =>
        /\ lastRun.netWorth = NetWorthFormula(state)
        /\ NetWorthExample(state) => lastRun.netWorth = 1110

\* calculateNetWorth has been called on the example.
C2_Witness ==
    /\ lastRun.op = "calculateNetWorth"
    /\ NetWorthExample(state)

\* The cash and the holdings are those the run found.
LedgerUntouched ==
    /\ state.cash = lastRun.ledger.cash
    /\ state.holdings = lastRun.ledger.holdings

\* A trade was attempted on a known asset after the game ended with a
\* position open.
C3_Witness ==
    /\ lastRun.op = "executeTrade"
    /\ lastRun.overAtEntry
    /\ DOMAIN lastRun.ledger.holdings # {}

\* C3: a trade attempted while the game is over returns InvalidState and
\* leaves cash and all holdings unchanged.
C3_ReturnsInvalidState ==
    (lastRun.op = "executeTrade" /\ lastRun.overAtEntry) =>
        /\ lastRun.ret = "InvalidState"
        /\ LedgerUntouched

\* A trade either changed nothing or was applied in full.
TradeAtomic ==
    lastRun.op = "executeTrade" =>
        \/ LedgerUntouched
        \/ \E assetId \in AssetIds : \E action \in TradeActions : \E units \in TradeUnits :
           \E price \in 1..100 :
              LET before == [state EXCEPT !.cash = lastRun.ledger.cash,
                                          !.holdings = lastRun.ledger.holdings]
              IN  state = ReduceExecuteTrade(before, assetId, action,
                                             TradeAmount(action, units, price), price)

\* C4: after any sequence of executeTrade commands cash >= 0 and every holding
\* has quantity >= 0 and shortQuantity >= 0; a rejected trade changes nothing
\* and an accepted one is applied in full.
C4_LedgerNeverNegative ==
    /\ state.cash >= 0
    /\ \A k \in DOMAIN state.holdings :
          state.holdings[k].quantity >= 0 /\ state.holdings[k].shortQuantity >= 0
    /\ TradeAtomic

\* A short position was covered.
C4_Witness ==
    /\ lastRun.op = "executeTrade"
    /\ lastRun.dispatched = <<"EXECUTE_TRADE">>
    /\ \E k \in DOMAIN state.holdings :
          /\ k \in DOMAIN lastRun.ledger.holdings
          /\ state.holdings[k].shortQuantity < lastRun.ledger.holdings[k].shortQuantity

TimerOps == {"followUp", "expire"}

\* C5: once the game is over no handler dispatches a further mutating action:
\* the frame loop dispatches nothing, and a follow-up or expiry timer that
\* fires after game over leaves the active news list as it was.
C5_NothingDispatchedAfterGameOver ==
    (lastRun.overAtEntry /\ lastRun.op \in {"frame"} \cup TimerOps) =>
        /\ lastRun.dispatched = <<>>
        /\ state.activeNews = lastRun.newsBefore

\* A follow-up timer set before the game ended has fired after it.
C5_Witness ==
    /\ lastRun.op = "followUp"
    /\ lastRun.overAtEntry

\* The expiry timer of an item: EXPIRE_NEWS for its id, NewsLifetime after
\* its emission.
HasExpiry(item) ==
    \E t \in timers.expiries :
        t.id = item.id /\ t.due = item.timestamp + NewsLifetime

\* C6: every news item added to the active news list, a chained follow-up
\* included, has EXPIRE_NEWS for its own id scheduled exactly 15000 ms after
\* it was emitted.
C6_EveryItemExpires ==
    \A i \in 1..Len(lastRun.emitted) : HasExpiry(lastRun.emitted[i])

\* A follow-up item has just been added to the active news list.
C6_Witness ==
    /\ lastRun.op = "followUp"
    /\ Len(lastRun.emitted) = 1
    /\ \E i \in 1..Len(state.activeNews) : state.activeNews[i] = lastRun.emitted[1]

\* The originators of a follow-up: the scheduled items emitted before it
\* that opened its chain.
OriginatorsOf(i) ==
    { j \in 1..(i - 1) :
        /\ newsLog[j].via = "schedule"
        /\ newsLog[j].item.chainSequence = 1
        /\ newsLog[j].item.chainId = newsLog[i].item.chainId }

\* C7: every follow-up item carries chainSequence = 2, the chainId and the
\* impacted assets of its originator, and 1.5 times its magnitude.
C7_FollowUpPayload ==
    \A i \in 1..Len(newsLog) :
        newsLog[i].via = "followUp" =>
            /\ newsLog[i].item.chainSequence = 2
            /\ OriginatorsOf(i) # {}
            /\ \A j \in OriginatorsOf(i) :
                  /\ newsLog[i].item.impactedAssets = newsLog[j].item.impactedAssets
                  /\ 2 * newsLog[i].item.magnitude = 3 * newsLog[j].item.magnitude

\* A follow-up was emitted whose own draw differs from its originator's.
C7_Witness ==
    \E i \in 1..Len(newsLog) :
        /\ newsLog[i].via = "followUp"
        /\ \E j \in OriginatorsOf(i) :
              newsLog[j].item.impactedAssets = {"a1"}

\* C8: a round that ends at round 10, by the countdown or by nextRound, ends
\* the game and leaves the round number alone; one that ends below round 10
\* raises the round number by one and resets timeRemaining; the round number
\* is always within 1..10.
C8_RoundTransitions ==
    /\ state.round \in 1..MaxRound
    /\ (lastRun.roundEnded /\ lastRun.roundBefore = MaxRound) =>
          state.isGameOver /\ state.round = MaxRound
    /\ (lastRun.roundEnded /\ lastRun.roundBefore < MaxRound) =>
          /\ state.round = lastRun.roundBefore + 1
          /\ state.timeRemaining = RoundDuration

\* The countdown has run out in round 10, which nextRound led to.
C8_Witness ==
    /\ lastRun.op = "frame"
    /\ lastRun.roundEnded
    /\ lastRun.roundBefore = MaxRound

\* C9: in a frame in which the price update and the net-worth recompute are
\* both due, the price update comes first and the net worth appended to the
\* portfolio history is that of the prices the frame produced.
C9_NetWorthFromFramePrices ==
    (lastRun.op = "frame" /\ lastRun.priceDue /\ lastRun.nwDue) =>
        /\ \E i, j \in 1..Len(lastRun.dispatched) :
              /\ i < j
              /\ lastRun.dispatched[i] = "UPDATE_PRICES"
              /\ lastRun.dispatched[j] = "UPDATE_NET_WORTH"
        /\ Last(portfolioHistory.values) =
              NetWorthFormula([cash     |-> lastRun.ledger.cash,
                               holdings |-> lastRun.ledger.holdings,
                               assets   |-> state.assets])

\* A frame with both updates due ran while a position was held.
C9_Witness ==
    /\ lastRun.op = "frame" /\ lastRun.priceDue /\ lastRun.nwDue
    /\ \E k \in DOMAIN lastRun.ledger.holdings : lastRun.ledger.holdings[k].quantity > 0

\* C10: while the game is paused a frame neither advances timeRemaining nor
\* emits a news item from the round's schedule.
C10_PausedFramesIdle ==
    (lastRun.op = "frame" /\ lastRun.pausedAtEntry) =>
        /\ state.timeRemaining = lastRun.timeBefore
        /\ lastRun.emitted = <<>>

\* A frame ran its body while the game was paused.
C10_Witness ==
    /\ lastRun.op = "frame"
    /\ lastRun.pausedAtEntry
    /\ lastRun.dispatched # <<>>

\* C11: unlockAchievement is idempotent: whatever unlockAchievement calls are
\* made, an id is in the unlocked set at most once, its unlock notification
\* is shown at most once, and it is shown only for an id that is unlocked.
C11_UnlockIdempotent ==
    \A a \in AchievementIds :
        /\ achievementToasts[a] <= 1
        /\ achievementToasts[a] = 1 <=> a \in achievementsUnlocked

\* One handler has called unlockAchievement twice for one id.
C11_Witness ==
    /\ lastRun.op = "unlockAchievement"
    /\ Len(lastRun.calls) = 2
    /\ lastRun.calls[1] = lastRun.calls[2]

\* The saveHighScore runs that asked the store to append a record.
Requested(saves) ==
    { i \in 1..Len(saves) :
        saves[i].stage \in {"insertRequested"} \cup InsertOutcomes }

\* A step that takes the game into game over starts one saveHighScore run
\* for the net worth of the finished game; no other step starts one.
SaveStartsAtGameOver ==
    IF ~state.isGameOver /\ state'.isGameOver
    THEN highScores' = Append(highScores,
                          [stage |-> "getUser",
                           finalValue |-> NetWorthFormula(state')])
    ELSE Len(highScores') = Len(highScores)

\* The rest of a run changes that run alone: after the lookup it asks for
\* the append or ends without one, after the append it ends, and the game
\* state stays as it is.
SaveResolvesQuietly ==
    \A i \in 1..Len(highScores) :
        (Len(highScores') = Len(highScores) /\ highScores'[i] # highScores[i]) =>
            /\ \/ /\ highScores[i].stage = "getUser"
                  /\ highScores'[i].stage \in GetUserOutcomes
               \/ /\ highScores[i].stage = "insertRequested"
                  /\ highScores'[i].stage \in InsertOutcomes
            /\ highScores'[i].finalValue = highScores[i].finalValue
            /\ state' = state
            /\ \A j \in 1..Len(highScores) : j # i => highScores'[j] = highScores[j]

\* C12 (as amended): each entry into game over starts exactly one
\* saveHighScore run carrying the final net worth, and no run starts while
\* the game is not over; the run asks the store for one append if a user is
\* signed in and for none otherwise, and whatever becomes of it, failure
\* included, leaves the game state unchanged.
C12_OneSavePerGameOver ==
    [][SaveStartsAtGameOver /\ SaveResolvesQuietly]_vars

\* The game has ended and its saveHighScore run found no signed-in user.
C12_Witness ==
    /\ state.isGameOver
    /\ lastRun.op = "saveHighScore"
    /\ lastRun.ret = "noUser"

\* C12 (as claimed): each entry into game over makes exactly one request to
\* append a high-score record: every saveHighScore run that has finished
\* has asked for the append.
C12_OneRequestPerGameOver ==
    \A i \in 1..Len(highScores) :
        highScores[i].stage # "getUser" => i \in Requested(highScores)

TrendOps == {"generatePriceHistory", "generateEnhancedSparklineData"}

\* C13: for every asset and every length >= 2 asked for, both trend-series
\* generators return exactly length points (generatePriceHistory its fixed
\* 20), the first of value previousPrice exactly and the last of the current
\* price exactly, with length - 2 points between them, whatever the random
\* draws are.
C13_TrendSeriesEnds ==
    lastRun.op \in TrendOps =>
        /\ Len(lastRun.series) = lastRun.length
        /\ SameValue(lastRun.series[1].value, state.assets[1].previousPrice)
        /\ SameValue(Last(lastRun.series).value, state.assets[1].price)

\* A series of more than two points was made for an asset whose price has
\* moved, with an intermediate point off the straight line.
C13_Witness ==
    /\ lastRun.op = "generateEnhancedSparklineData"
    /\ lastRun.length = 5
    /\ state.assets[1].previousPrice # state.assets[1].price
    /\ \E i \in 2..4 :
          LET v == lastRun.series[i].value
          IN  v.num * 4 # (state.assets[1].previousPrice * (5 - i)
                             + state.assets[1].price * (i - 1)) * v.den

\* The items of the run whose magnitude is above 0.7.
BreakingItems ==
    { i \in 1..Len(lastRun.emitted) :
        lastRun.emitted[i].magnitude > BreakingThreshold }

\* C14: every news item emitted with magnitude > 0.7, a scheduled item or a
\* chained follow-up, produces one breaking-news notification, and no item
\* with magnitude <= 0.7 produces one.
C14_BreakingNewsToasts ==
    lastRun.op \in {"frame", "followUp"} =>
        /\ Len(lastRun.toasts) = Cardinality(BreakingItems)
        /\ \A i \in 1..Len(lastRun.toasts) : lastRun.toasts[i] = "Breaking News!"

\* A follow-up was emitted with a magnitude above 0.7.
C14_Witness ==
    /\ lastRun.op = "followUp"
    /\ BreakingItems # {}

\* C15: the mission evaluator (UPDATE_MISSION_PROGRESS from the 1-second
\* interval) is dispatched only while the game is running: an interval tick
\* that comes while the game is paused or over dispatches nothing, whatever
\* pause toggles, game over and ticks came before it.
C15_MissionsOnlyWhileRunning ==
    lastRun.op = "missionInterval" =>
        (lastRun.dispatched # <<>> <=> (~lastRun.pausedAtEntry /\ ~lastRun.overAtEntry))

\* The interval ticked while the game was paused.
C15_Witness ==
    /\ lastRun.op = "missionInterval"
    /\ lastRun.pausedAtEntry
    /\ budget.pauses > 0

NonDecreasing(seq) == \A i \in 1..(Len(seq) - 1) : seq[i] <= seq[i + 1]

\* The timestamps of the points of a series, in order.
PointTimes(data) == [i \in 1..Len(data) |-> data[i].timestamp]

\* C16: after any sequence of appends made by the game (mount, startGame,
\* price ticks, net-worth ticks) under a non-decreasing clock, the timestamps
\* of each per-asset history series and of the portfolio history series are
\* in non-decreasing order; duplicate timestamps are allowed.
C16_HistoryChronological ==
    /\ \A a \in DOMAIN assetPriceHistory :
          /\ NonDecreasing(assetPriceHistory[a].timestamps)
          /\ PointTimes(assetPriceHistory[a].data) = assetPriceHistory[a].timestamps
    /\ NonDecreasing(portfolioHistory.timestamps)
    /\ PointTimes(portfolioHistory.data) = portfolioHistory.timestamps

\* Mount, startGame at the same millisecond and a later frame have each
\* appended to an asset series and to the portfolio series.
C16_Witness ==
    /\ \E a \in DOMAIN assetPriceHistory :
          LET ts == assetPriceHistory[a].timestamps
          IN  Len(ts) >= 3 /\ ts[1] = ts[2] /\ ts[2] < ts[3]
    /\ LET ts == portfolioHistory.timestamps
       IN  Len(ts) >= 3 /\ ts[1] = ts[2] /\ ts[2] < ts[3]

\* seq without the members of gone.
Without(seq, gone) ==
    LET Keep(x) == x \notin gone
    IN  SelectSeq(seq, Keep)

\* C17: when scheduled offsets fire in a frame, exactly those offsets are
\* removed from the pending schedule and no un-fired offset is removed, also
\* when two offsets at least 100 ms apart fall inside the match window of
\* the same frame.
C17_FiredOffsetsRemoved ==
    (lastRun.op = "frame" /\ lastRun.fired # {}) =>
        lastRun.scheduleLeft = Without(lastRun.scheduleBefore, lastRun.fired)

\* Two offsets of the schedule have fired in one frame.
C17_Witness ==
    /\ lastRun.op = "frame"
    /\ Cardinality(lastRun.fired) = 2

\* The schedule-driven items emitted in round r so far.
ScheduledIn(r) ==
    { i \in 1..Len(newsLog) : newsLog[i].via = "schedule" /\ newsLog[i].round = r }

\* C18: within one round the schedule is generated once, pausing and
\* resuming included, so the number of schedule-driven news items emitted in
\* a round never exceeds the event count computed for that round's density.
C18_ItemsWithinEventCount ==
    \A r \in 1..MaxRound :
        Cardinality(ScheduledIn(r))
            <= calculateRoundEventCount(getRoundEventDensity(r))

\* A scheduled item was emitted in a round that had been paused and resumed.
C18_Witness ==
    /\ budget.pauses >= 2
    /\ lastRun.op = "frame"
    /\ lastRun.emitted # <<>>
    /\ ~lastRun.pausedAtEntry

\* C19: the guard of a chained follow-up is evaluated against the state at
\* the moment its timer fires: the follow-up is added exactly when the game
\* is neither paused nor over at that moment.
C19_FollowUpGuardAtFireTime ==
    lastRun.op = "followUp" =>
        (lastRun.emitted # <<>> <=> (~lastRun.pausedAtEntry /\ ~lastRun.overAtEntry))

\* A follow-up timer has fired while the game was paused.
C19_Witness ==
    /\ lastRun.op = "followUp"
    /\ lastRun.pausedAtEntry
    /\ ~lastRun.overAtEntry

\* C20: when the countdown of a round that ran without pause reaches 0,
\* every offset of the round's schedule has produced a news item, whatever
\* the durations of the frames were.
C20_ScheduleExhaustedAtRoundEnd ==
    (lastRun.op = "frame" /\ lastRun.roundEnded) => lastRun.scheduleLeft = <<>>

\* The countdown has reached 0 in a frame.
C20_Witness ==
    /\ lastRun.op = "frame"
    /\ lastRun.roundEnded
    /\ lastRun.scheduleBefore # <<>>

\* C21: every news item added to the active news list, chained follow-ups
\* included, has a magnitude within 0..1 (0..100 hundredths).
C21_MagnitudeNormalized ==
    \A i \in 1..Len(newsLog) :
        newsLog[i].item.magnitude >= 0 /\ newsLog[i].item.magnitude <= 100

\* A follow-up has been added to the active news list.
C21_Witness ==
    \E i \in 1..Len(newsLog) :
        /\ newsLog[i].via = "followUp"
        /\ \E k \in 1..Len(state.activeNews) : state.activeNews[k] = newsLog[i].item

\* The items emitted so far with the given chain id and chain sequence.
ChainItems(chainId, sequence) ==
    { i \in 1..Len(newsLog) :
        /\ newsLog[i].item.chainId = chainId
        /\ newsLog[i].item.chainSequence = sequence }

ChainIds ==
    { newsLog[i].item.chainId : i \in 1..Len(newsLog) } \ {NoChain}

\* C22: for every chainId at most one item with chainSequence = 1 and at
\* most one with chainSequence = 2 is ever emitted, the second never before
\* the first, and a follow-up never schedules a further follow-up: every
\* pending follow-up timer was set by the first item of a chain that has no
\* second item yet.
C22_ChainsOfTwo ==
    /\ \A c \in ChainIds :
          /\ Cardinality(ChainItems(c, 1)) <= 1
          /\ Cardinality(ChainItems(c, 2)) <= 1
          /\ \A i \in ChainItems(c, 2) : \E j \in ChainItems(c, 1) : j < i
    /\ \A t \in timers.followUps :
          /\ t.origin.chainSequence = 1
          /\ ChainItems(t.origin.chainId, 2) = {}

\* Two chains have been opened and the follow-up of one of them emitted.
C22_Witness ==
    /\ Cardinality(ChainIds) >= 2
    /\ \E c \in ChainIds : ChainItems(c, 2) # {}

\* C23: after any sequence of updateAssetPriceHistory calls the tracked min
\* and max of every asset series are the minimum and the maximum of exactly
\* the prices the series retains, before the cap is reached and after
\* evictions.
C23_TrackedExtremes ==
    \A assetId \in DOMAIN assetPriceHistory :
        LET h == assetPriceHistory[assetId]
        IN  /\ h.min = SeqMin(h.prices)
            /\ h.max = SeqMax(h.prices)

\* The lowest point of a full series has been evicted and the tracked min has
\* risen to the lowest price that is left, beside a series below its cap.
C23_Witness ==
    /\ histCalls["a1"] > AssetHistoryCap
    /\ Len(assetPriceHistory["a1"].prices) = AssetHistoryCap
    /\ assetPriceHistory["a1"].min > OldestPrice
    /\ "a2" \in DOMAIN assetPriceHistory
    /\ Len(assetPriceHistory["a2"].prices) > 1
    /\ assetPriceHistory["a2"].min < assetPriceHistory["a2"].max

\* C24: on a price tick the point appended to each asset's price history is
\* the asset's price after the tick's UPDATE_PRICES, so that, once a frame
\* that emitted no news has completed, the last point of every asset's
\* history is the asset's current price.
C24_HistoryTracksCurrentPrice ==
    (lastRun.op = "frame" /\ lastRun.priceDue /\ lastRun.emitted = <<>>) =>
        \A i \in 1..Len(state.assets) :
            /\ state.assets[i].id \in DOMAIN assetPriceHistory
            /\ Last(assetPriceHistory[state.assets[i].id].prices) = state.assets[i].price

\* A price tick has moved a price and appended a point for every asset.
C24_Witness ==
    /\ lastRun.op = "frame" /\ lastRun.priceDue /\ lastRun.emitted = <<>>
    /\ \E i \in 1..Len(state.assets) :
          /\ Len(assetPriceHistory[state.assets[i].id].prices) > 1
          /\ state.assets[i].price # initialGameState.assets[i].price

==========================================================================
